---- MODULE Spec2Model ----
(***************************************************************************)
(* Quotient computation and commitment stage of the CPU prover:            *)
(* QuotientCommitter::quotient_values / single_rap_quotient_values /       *)
(* commit, QuotientData::split and SingleQuotientData::split               *)
(* (crates/stark-backend/src/prover/cpu/quotient/mod.rs), instantiated     *)
(* with the two-adic coset domains of the config in                        *)
(* crates/stark-sdk/src/config/baby_bear_poseidon2_root.rs.                *)
(***************************************************************************)
EXTENDS Integers, Sequences, FiniteSets, TLC

(* ------------------------------ bounds -------------------------------- *)
\* Largest number of constraint systems / trace views / quotient degrees.
MaxSystems == 2
\* Largest number of challenge phases of one trace view.
MaxPhases == 3
\* Largest log2 of a trace height.
MaxLogHeight == 1

(* ------------------------- field and constants ------------------------ *)
\* type Val = BabyBear, scaled down to the two-adic prime field of order
\* 193 = 3 * 2^6 + 1 (BabyBear is 15 * 2^27 + 1): same shape, a proper
\* odd cofactor, multiplicative generator 5.
BabyBear == [order |-> 193, two_adicity |-> 6, generator |-> 5]

\* type Challenge = BinomialExtensionField<Val, 4>
ExtDegree == 4

\* quotient degrees of the contract: powers of two that fit the constraint degree
Degrees == {1, 2, 4, 8}

P == BabyBear.order

RECURSIVE Pow(_, _)
Pow(b, e) ==
    IF e = 0 THEN 1
    ELSE IF e % 2 = 0 THEN LET h == Pow(b, e \div 2) IN (h * h) % P
    ELSE (b * Pow(b, e - 1)) % P

RECURSIVE Pow2(_)
Pow2(e) == IF e = 0 THEN 1 ELSE 2 * Pow2(e - 1)

\* TwoAdicField::two_adic_generator(bits)
two_adic_generator(bits) ==
    Pow(Pow(BabyBear.generator, (P - 1) \div Pow2(BabyBear.two_adicity)),
        Pow2(BabyBear.two_adicity - bits))

\* p3_util::log2_strict_usize: defined on powers of two only
log2_strict_usize(n) == CHOOSE k \in 0..BabyBear.two_adicity : Pow2(k) = n

\* p3_util::log2_ceil_usize
log2_ceil_usize(n) ==
    CHOOSE k \in 0..(BabyBear.two_adicity + 1) :
        /\ Pow2(k) >= n
        /\ \A j \in 0..(k - 1) : Pow2(j) < n

(* --------------------- domain arithmetic provider --------------------- *)
\* A domain is a two-adic multiplicative coset [log_n, shift].
size(domain) == Pow2(domain.log_n)

\* the points of a domain in natural order, as a sequence
RECURSIVE PointsFrom(_, _, _)
PointsFrom(x, g, n) ==
    IF n = 0 THEN <<>> ELSE <<x>> \o PointsFrom((x * g) % P, g, n - 1)

PointSeq(domain) ==
    PointsFrom(domain.shift, two_adic_generator(domain.log_n), size(domain))

Points(domain) == LET ps == PointSeq(domain) IN {ps[j] : j \in 1..Len(ps)}

\* Pcs::natural_domain_for_degree
natural_domain_for_degree(degree) ==
    [log_n |-> log2_strict_usize(degree), shift |-> 1]

\* PolynomialSpace::create_disjoint_domain
create_disjoint_domain(domain, min_size) ==
    [log_n |-> log2_ceil_usize(min_size),
     shift |-> (domain.shift * BabyBear.generator) % P]

\* PolynomialSpace::split_domains
split_domains(domain, num_chunks) ==
    [i \in 1..num_chunks |->
        [log_n |-> domain.log_n - log2_strict_usize(num_chunks),
         shift |-> (domain.shift
                    * Pow(two_adic_generator(domain.log_n), i - 1)) % P]]

(* ------------------------------ matrices ------------------------------ *)
\* RowMajorMatrix: the values row after row, and the row width.
height(m) == Len(m.values) \div m.width

Row(m, r) == [c \in 1..m.width |-> m.values[(r - 1) * m.width + c]]

\* RowMajorMatrix::new_col
new_col(v) == [values |-> v, width |-> 1]

RECURSIVE FlattenSeq(_)
FlattenSeq(s) == IF s = <<>> THEN <<>> ELSE Head(s) \o FlattenSeq(Tail(s))

\* RowMajorMatrix::flatten_to_base: every extension element becomes its
\* ExtDegree base-field coefficients, in place
flatten_to_base(m) ==
    [values |-> FlattenSeq(m.values), width |-> m.width * ExtDegree]

\* rows i, i + stride, i + 2 stride, ... (0-based offset i) as a new matrix
vertically_strided(m, stride, offset) ==
    LET rows == height(m) \div stride
    IN  [values |-> [n \in 1..(rows * m.width) |->
                        LET r == (n - 1) \div m.width
                            c == (n - 1) % m.width
                        IN  m.values[(offset + r * stride) * m.width + c + 1]],
         width |-> m.width]

\* PolynomialSpace::split_evals
split_evals(domain, num_chunks, evals) ==
    [i \in 1..num_chunks |-> vertically_strided(evals, num_chunks, i - 1)]

(* -------------------------------- state ------------------------------- *)
VARIABLES
    constraints_len,      \* constraints.len()
    extended_views_len,   \* extended_views.len()
    quotient_degrees_len, \* quotient_degrees.len()
    alpha,                \* QuotientCommitter.alpha
    pc,                   \* position of the quotient_values-then-commit run
    idx,                  \* number of triples the izip has yielded
    view,                 \* the RapView most recently yielded by the izip
    taken,                \* per yielded triple: its log_trace_height and quotient_degree
    domains,              \* (trace_domain, quotient_domain) pairs built so far
    evaluated,            \* indices for which compute_single_rap_quotient_values ran
    inner,                \* QuotientData.inner collected so far
    split_idx,            \* number of systems QuotientData::split has gone through
    chunks,               \* QuotientChunks yielded by QuotientData::split so far
    pcs_commits,          \* the lists handed to pcs.commit, one per invocation
    log_trace_heights,    \* PcsData.log_trace_heights of the returned value
    panic                 \* "none", or the contract violation that aborted the run

vars == <<constraints_len, extended_views_len, quotient_degrees_len, alpha, pc,
          idx, view, taken, domains, evaluated, inner, split_idx, chunks,
          pcs_commits, log_trace_heights, panic>>

SeqsUpTo(S, n) == UNION {[1..k -> S] : k \in 0..n}

\* RapSinglePhaseView: inner is the optional committed matrix of the phase
PhaseViews == [inner : {"None", "Some"}]

\* RapView: pair.log_trace_height and the per_phase list
RapViews == [log_trace_height : 0..MaxLogHeight,
             per_phase : SeqsUpTo(PhaseViews, MaxPhases)]

NoView == [log_trace_height |-> 0, per_phase |-> <<>>]

\* the challenge the committer was constructed with (an extension element)
SampleAlpha == <<3, 1, 0, 0>>

Min(a, b) == IF a <= b THEN a ELSE b

\* izip! stops at the shortest of its three inputs
ZipLen == Min(constraints_len, Min(extended_views_len, quotient_degrees_len))

(* ---------------------------- quotient_values ------------------------- *)
\* the two assert_eq! of quotient_values
LengthsAgree_first_only(c, v, q) == c = v

LengthsAgree(c, v, q) == c = v /\ c = q

\* multiunzip over per_phase with view.inner.expect(..): fails on the first
\* phase without a committed matrix, otherwise yields one matrix per phase
UnpackPhases_skip_absent(per_phase) ==
    [ok |-> TRUE,
     after_challenge |-> Cardinality({k \in 1..Len(per_phase) : per_phase[k].inner = "Some"})]

UnpackPhases_first_phase_only(per_phase) ==
    [ok |-> per_phase = <<>> \/ per_phase[1].inner = "Some",
     after_challenge |-> Len(per_phase)]

UnpackPhases(per_phase) ==
    [ok |-> \A k \in 1..Len(per_phase) : per_phase[k].inner = "Some",
     after_challenge |-> Len(per_phase)]

\* trace_domain of a view
TraceDomainFor(log_trace_height) ==
    natural_domain_for_degree(Pow2(log_trace_height))

\* quotient_domain of a view
QuotientDomainFor_no_multiplier(trace_domain, quotient_degree) ==
    create_disjoint_domain(trace_domain, size(trace_domain))

QuotientDomainFor_natural(trace_domain, quotient_degree) ==
    natural_domain_for_degree(size(trace_domain) * quotient_degree)

QuotientDomainFor(trace_domain, quotient_degree) ==
    create_disjoint_domain(trace_domain, size(trace_domain) * quotient_degree)

\* compute_single_rap_quotient_values: one extension element per point of the
\* quotient domain; the element at point j of system i is a stand-in that
\* differs from point to point and from system to system
compute_single_rap_quotient_values(i, quotient_domain, a) ==
    [j \in 1..size(quotient_domain) |->
        <<(a[1] + j - 1) % P, (a[1] * (j - 1) + a[2]) % P,
          (i + (j - 1) * (j - 1)) % P, (a[1] + i) % P>>]

Init ==
    /\ constraints_len \in 0..MaxSystems
    /\ extended_views_len \in 0..MaxSystems
    /\ quotient_degrees_len \in 0..MaxSystems
    /\ alpha = SampleAlpha
    /\ pc = "quotient_values"
    /\ idx = 0
    /\ view = NoView
    /\ taken = <<>>
    /\ domains = <<>>
    /\ evaluated = <<>>
    /\ inner = <<>>
    /\ split_idx = 0
    /\ chunks = <<>>
    /\ pcs_commits = <<>>
    /\ log_trace_heights = <<>>
    /\ panic = "none"

\* quotient_values, entry: the length assertions
AssertLengths ==
    /\ pc = "quotient_values"
    /\ IF LengthsAgree(constraints_len, extended_views_len, quotient_degrees_len)
         THEN pc' = "map" /\ panic' = panic
         ELSE pc' = "panicked" /\ panic' = "length_mismatch"
    /\ UNCHANGED <<constraints_len, extended_views_len, quotient_degrees_len,
                   alpha, idx, view, taken, domains, evaluated, inner,
                   split_idx, chunks, pcs_commits, log_trace_heights>>

\* the izip yields the next (constraints, extended_view, quotient_degree)
NextTriple ==
    /\ pc = "map"
    /\ idx < ZipLen
    /\ \E v \in RapViews, d \in Degrees :
          /\ view' = v
          /\ taken' = Append(taken, [log_trace_height |-> v.log_trace_height,
                                     quotient_degree |-> d])
    /\ idx' = idx + 1
    /\ pc' = "single_rap"
    /\ UNCHANGED <<constraints_len, extended_views_len, quotient_degrees_len,
                   alpha, domains, evaluated, inner, split_idx, chunks,
                   pcs_commits, log_trace_heights, panic>>

\* single_rap_quotient_values for the triple just yielded
SingleRapQuotientValues ==
    /\ pc = "single_rap"
    /\ LET quotient_degree == taken[idx].quotient_degree
           trace_domain == TraceDomainFor(view.log_trace_height)
           quotient_domain == QuotientDomainFor(trace_domain, quotient_degree)
           unpacked == UnpackPhases(view.per_phase)
       IN  /\ domains' = Append(domains, [trace_domain |-> trace_domain,
                                          quotient_domain |-> quotient_domain])
           /\ IF unpacked.ok
                THEN /\ evaluated' = Append(evaluated, idx)
                     /\ inner' = Append(inner,
                            [quotient_degree |-> quotient_degree,
                             quotient_domain |-> quotient_domain,
                             quotient_values |->
                                compute_single_rap_quotient_values(
                                    idx, quotient_domain, alpha)])
                     /\ pc' = "map"
                     /\ panic' = panic
                ELSE /\ evaluated' = evaluated
                     /\ inner' = <<>>
                     /\ pc' = "panicked"
                     /\ panic' = "gap"
    /\ UNCHANGED <<constraints_len, extended_views_len, quotient_degrees_len,
                   alpha, idx, view, taken, split_idx, chunks, pcs_commits,
                   log_trace_heights>>

\* quotient_values, exit: collect() is complete, every view has been consumed
\* and QuotientData is returned
ReturnQuotientData ==
    /\ pc = "map"
    /\ idx = ZipLen
    /\ pc' = "commit"
    /\ view' = NoView
    /\ UNCHANGED <<constraints_len, extended_views_len, quotient_degrees_len,
                   alpha, idx, taken, domains, evaluated, inner,
                   split_idx, chunks, pcs_commits, log_trace_heights, panic>>

(* -------------------------- split and commit -------------------------- *)
\* SingleQuotientData::split
SingleQuotientData_split_reversed(data) ==
    LET quotient_flat == flatten_to_base(new_col(data.quotient_values))
        quotient_chunks == split_evals(data.quotient_domain, data.quotient_degree,
                                       quotient_flat)
        qc_domains == split_domains(data.quotient_domain, data.quotient_degree)
    IN  [k \in 1..data.quotient_degree |->
            [domain |-> qc_domains[k],
             chunk |-> quotient_chunks[data.quotient_degree + 1 - k]]]

SingleQuotientData_split_contiguous(data) ==
    LET quotient_flat == flatten_to_base(new_col(data.quotient_values))
        rows == height(quotient_flat) \div data.quotient_degree
        qc_domains == split_domains(data.quotient_domain, data.quotient_degree)
    IN  [k \in 1..data.quotient_degree |->
            [domain |-> qc_domains[k],
             chunk |-> [values |-> SubSeq(quotient_flat.values,
                                          (k - 1) * rows * quotient_flat.width + 1,
                                          k * rows * quotient_flat.width),
                        width |-> quotient_flat.width]]]

SingleQuotientData_split(data) ==
    LET quotient_flat == flatten_to_base(new_col(data.quotient_values))
        quotient_chunks == split_evals(data.quotient_domain, data.quotient_degree,
                                       quotient_flat)
        qc_domains == split_domains(data.quotient_domain, data.quotient_degree)
    IN  [k \in 1..data.quotient_degree |->
            [domain |-> qc_domains[k], chunk |-> quotient_chunks[k]]]

\* QuotientData::split: flat_map, the chunks of one system after those of the
\* systems before it
FlatMapExtend_prepend(acc, more) == more \o acc

FlatMapExtend(acc, more) == acc \o more

\* commit: the u8 recorded for one chunk
ChunkLogHeight_size(q) == size(q.domain)

ChunkLogHeight(q) == log2_strict_usize(size(q.domain))

\* commit: the map-and-unzip over the chunks
CommitUnzip(qs) ==
    [log_trace_heights |-> [n \in 1..Len(qs) |-> ChunkLogHeight(qs[n])],
     quotient_domains_and_chunks |->
        [n \in 1..Len(qs) |-> <<qs[n].domain, qs[n].chunk>>]]

\* commit: QuotientData::split yields the chunks of the next system
SplitNext ==
    /\ pc = "commit"
    /\ split_idx < Len(inner)
    /\ chunks' = FlatMapExtend(chunks, SingleQuotientData_split(inner[split_idx + 1]))
    /\ split_idx' = split_idx + 1
    /\ UNCHANGED <<constraints_len, extended_views_len, quotient_degrees_len,
                   alpha, pc, idx, view, taken, domains, evaluated, inner,
                   pcs_commits, log_trace_heights, panic>>

\* commit: the unzip is complete, pcs.commit runs and the result is returned
PcsCommit ==
    /\ pc = "commit"
    /\ split_idx = Len(inner)
    /\ LET u == CommitUnzip(chunks)
       IN  /\ pcs_commits' = Append(pcs_commits, u.quotient_domains_and_chunks)
           /\ log_trace_heights' = u.log_trace_heights
    /\ pc' = "done"
    /\ UNCHANGED <<constraints_len, extended_views_len, quotient_degrees_len,
                   alpha, idx, view, taken, domains, evaluated, inner,
                   split_idx, chunks, panic>>

Next ==
    \/ AssertLengths
    \/ NextTriple
    \/ SingleRapQuotientValues
    \/ ReturnQuotientData
    \/ SplitNext
    \/ PcsCommit

Spec == Init /\ [][Next]_vars

TypeOK ==
    /\ pc \in {"quotient_values", "map", "single_rap", "commit", "done", "panicked"}
    /\ panic \in {"none", "length_mismatch", "gap"}
    /\ idx \in 0..MaxSystems
    /\ view \in RapViews

(* ------------------------- auxiliary definitions ---------------------- *)
RECURSIVE SumDegrees(_)
SumDegrees(ts) ==
    IF ts = <<>> THEN 0 ELSE Head(ts).quotient_degree + SumDegrees(Tail(ts))

\* number of chunks that belong to the systems before system i
Offset(i) == SumDegrees(SubSeq(taken, 1, i - 1))

\* some phase lacks a committed matrix and a later phase has one
HasGap(per_phase) ==
    \E a, b \in 1..Len(per_phase) :
        a < b /\ per_phase[a].inner = "None" /\ per_phase[b].inner = "Some"

\* every phase with a committed matrix precedes every phase without one
TrailingOnly(per_phase) == ~HasGap(per_phase)

\* the view most recently yielded has been through single_rap_quotient_values
ViewProcessed == idx >= 1 /\ pc # "single_rap"

LengthsMismatch ==
    ~(constraints_len = extended_views_len /\ extended_views_len = quotient_degrees_len)

\* the 1-based index of the point x in the sequence of points ps
IndexOfPoint(ps, x) == CHOOSE j \in 1..Len(ps) : ps[j] = x

\* the point sequences of the domains of a list of chunks
RECURSIVE ChunkPoints(_)
ChunkPoints(cs) ==
    IF cs = <<>> THEN <<>>
    ELSE <<PointSeq(Head(cs).domain)>> \o ChunkPoints(Tail(cs))

RECURSIVE SumHeights(_)
SumHeights(cs) ==
    IF cs = <<>> THEN 0 ELSE height(Head(cs).chunk) + SumHeights(Tail(cs))

(* -------------------------------- claims ------------------------------ *)
\* C1: when the three input lengths are not all equal the call aborts before
\* any work: no triple is taken, no domain is built, the evaluator runs for no
\* system, nothing is split and pcs.commit is never invoked.
C1_MismatchAbortsBeforeWork ==
    LengthsMismatch =>
        /\ pc \in {"quotient_values", "panicked"}
        /\ pc = "panicked" => panic = "length_mismatch"
        /\ idx = 0
        /\ domains = <<>>
        /\ evaluated = <<>>
        /\ inner = <<>>
        /\ chunks = <<>>
        /\ pcs_commits = <<>>

C1_Witness ==
    /\ pc = "panicked"
    /\ panic = "length_mismatch"
    /\ constraints_len = 2
    /\ extended_views_len = 1

\* C2: a trace view with a gap (a phase without a committed matrix followed by
\* a phase with one) makes single_rap_quotient_values fail with the gap
\* condition, and the evaluator is not invoked for that system.
C2_GapFails ==
    (ViewProcessed /\ HasGap(view.per_phase)) =>
        /\ pc = "panicked"
        /\ panic = "gap"
        /\ \A n \in 1..Len(evaluated) : evaluated[n] # idx

C2_Witness ==
    /\ panic = "gap"
    /\ view.per_phase = <<[inner |-> "Some"], [inner |-> "None"], [inner |-> "Some"]>>
    /\ evaluated = <<>>

\* C3: a trace view whose phases without a committed matrix form only a
\* trailing suffix does not fail with the gap condition, and the evaluator is
\* invoked for it.
C3_TrailingAbsentAccepted ==
    (ViewProcessed /\ TrailingOnly(view.per_phase)) =>
        /\ panic # "gap"
        /\ \E n \in 1..Len(evaluated) : evaluated[n] = idx

\* C4: no partial success: a failed run has issued no commitment and returns
\* no quotient data, a system that fails aborts the run, and a run that
\* reaches pcs.commit has produced the data of every system and commits once.
C4_NoPartialSuccess ==
    /\ pc = "panicked" =>
          /\ pcs_commits = <<>>
          /\ inner = <<>>
          /\ chunks = <<>>
          /\ log_trace_heights = <<>>
    /\ (ViewProcessed /\ \E k \in 1..Len(view.per_phase) :
                            view.per_phase[k].inner = "None") => pc = "panicked"
    /\ Len(pcs_commits) <= 1
    /\ pcs_commits # <<>> =>
          /\ pc = "done"
          /\ panic = "none"
          /\ Len(inner) = constraints_len
          /\ Len(inner) = extended_views_len
          /\ Len(inner) = quotient_degrees_len
    /\ pc = "done" => Len(pcs_commits) = 1

C4_Witness ==
    /\ pc = "panicked"
    /\ panic = "gap"
    /\ idx = 2
    /\ evaluated = <<1>>

\* C5: pcs.commit is invoked at most once, only after every system has been
\* split, and receives the chunks of all systems: system i before system j
\* for i < j, and within a system the chunk of the k-th sub-coset of the
\* domain split at position k, holding the flattened quotient rows k, k + d, ...
C5_SingleOrderedCommit ==
    /\ Len(pcs_commits) <= 1
    /\ pcs_commits # <<>> =>
          /\ split_idx = Len(inner)
          /\ Len(pcs_commits[1]) = SumDegrees(taken)
          /\ \A i \in 1..Len(inner) :
                LET d == taken[i].quotient_degree
                    sub == split_domains(inner[i].quotient_domain, d)
                IN  \A k \in 1..d :
                        LET pair == pcs_commits[1][Offset(i) + k]
                        IN  /\ pair[1] = sub[k]
                            /\ height(pair[2]) * d = Len(inner[i].quotient_values)
                            /\ \A r \in 1..height(pair[2]) :
                                  Row(pair[2], r) =
                                      inner[i].quotient_values[(r - 1) * d + k]

C5_Witness ==
    /\ pc = "done"
    /\ Len(inner) = 2
    /\ taken[1].quotient_degree = 2
    /\ taken[2].quotient_degree = 4
    /\ taken[2].log_trace_height = 1

\* C6: log_trace_heights has one entry per chunk (d_0 + ... + d_{n-1} in
\* all), index for index with the list given to pcs.commit, and the entries
\* of system i's chunks equal its log_trace_height, the log2 of the chunk
\* domain's size.
C6_LogTraceHeights ==
    pc = "done" =>
        /\ Len(log_trace_heights) = SumDegrees(taken)
        /\ Len(log_trace_heights) = Len(pcs_commits[1])
        /\ \A i \in 1..Len(taken) : \A k \in 1..taken[i].quotient_degree :
              /\ log_trace_heights[Offset(i) + k] = taken[i].log_trace_height
              /\ size(pcs_commits[1][Offset(i) + k][1])
                    = Pow2(log_trace_heights[Offset(i) + k])

C6_Witness ==
    /\ pc = "done"
    /\ Len(taken) = 2
    /\ taken[1].log_trace_height = 1
    /\ taken[2].log_trace_height = 0
    /\ taken[1].quotient_degree = 2
    /\ taken[2].quotient_degree = 8

\* C7: the trace domain of a system has size 2^l, its quotient domain has
\* size 2^l * d, and the stored result carries that quotient domain and d.
C7_QuotientDomainSize ==
    /\ \A i \in 1..Len(domains) :
          /\ size(domains[i].trace_domain) = Pow2(taken[i].log_trace_height)
          /\ size(domains[i].quotient_domain)
                = Pow2(taken[i].log_trace_height) * taken[i].quotient_degree
    /\ \A i \in 1..Len(inner) :
          /\ inner[i].quotient_domain = domains[i].quotient_domain
          /\ inner[i].quotient_degree = taken[i].quotient_degree

C7_Witness ==
    \E i \in 1..Len(inner) :
        /\ taken[i].log_trace_height = 1
        /\ taken[i].quotient_degree = 8
        /\ size(inner[i].quotient_domain) = 16

\* C8: the quotient domain shares no point with the trace domain, and the
\* trace domain's vanishing polynomial x^|H| - 1 is nonzero at every point of
\* the quotient domain.
C8_Disjoint ==
    \A i \in 1..Len(domains) :
        /\ Points(domains[i].quotient_domain) \cap Points(domains[i].trace_domain) = {}
        /\ \A x \in Points(domains[i].quotient_domain) :
              Pow(x, size(domains[i].trace_domain)) # 1

C8_Witness ==
    \E i \in 1..Len(domains) :
        /\ domains[i].trace_domain.log_n = 1
        /\ domains[i].quotient_domain.log_n = 3
        /\ \E n \in 1..Len(evaluated) : evaluated[n] = i

\* C9: split emits d (domain, matrix) pairs per system; every matrix has
\* trace-size rows and ExtDegree columns; the d chunk domains are pairwise
\* disjoint, of trace size, and cover the quotient domain; row r of chunk k is
\* the quotient value at point r of chunk domain k.
C9_SplitShape ==
    /\ Len(chunks) = SumDegrees(SubSeq(taken, 1, split_idx))
    /\ \A i \in 1..split_idx :
          LET d == taken[i].quotient_degree
              qd == inner[i].quotient_domain
              rows == Len(inner[i].quotient_values) \div d
              cs == SubSeq(chunks, Offset(i) + 1, Offset(i) + d)
              qpts == PointSeq(qd)
              cpts == ChunkPoints(cs)
          IN  /\ Len(cs) = d
              /\ rows = Pow2(taken[i].log_trace_height)
              /\ \A k \in 1..d :
                    /\ height(cs[k].chunk) = rows
                    /\ cs[k].chunk.width = ExtDegree
                    /\ Len(cs[k].chunk.values) = rows * ExtDegree
                    /\ size(cs[k].domain) = rows
                    /\ Len(cpts[k]) = rows
                    /\ Cardinality({cpts[k][r] : r \in 1..rows}) = rows
                    /\ \A r \in 1..rows :
                          Row(cs[k].chunk, r) =
                              inner[i].quotient_values[IndexOfPoint(qpts, cpts[k][r])]
              /\ \A k1, k2 \in 1..d :
                    k1 # k2 => {cpts[k1][r] : r \in 1..rows}
                                   \cap {cpts[k2][r] : r \in 1..rows} = {}
              /\ UNION {{cpts[k][r] : r \in 1..rows} : k \in 1..d}
                    = {qpts[j] : j \in 1..Len(qpts)}

C9_Witness ==
    /\ split_idx >= 1
    /\ taken[1].quotient_degree = 4
    /\ taken[1].log_trace_height = 1
    /\ Len(chunks) >= 4

\* C10: reassembling the chunk rows by coset membership gives back the
\* flattened matrix: every quotient-domain point lies in exactly one chunk
\* domain at exactly one row, and that row is the flattened row of the point.
C10_RoundTrip ==
    \A i \in 1..split_idx :
        LET d == taken[i].quotient_degree
            qd == inner[i].quotient_domain
            flat == flatten_to_base(new_col(inner[i].quotient_values))
            cs == SubSeq(chunks, Offset(i) + 1, Offset(i) + d)
            qpts == PointSeq(qd)
            cpts == ChunkPoints(cs)
            Places(j) == UNION {{<<k, r>> : r \in {r \in 1..height(cs[k].chunk) :
                                                    r <= Len(cpts[k]) /\ cpts[k][r] = qpts[j]}} :
                                k \in 1..Len(cs)}
            rebuilt == [j \in 1..height(flat) |->
                            LET kr == CHOOSE x \in Places(j) : TRUE
                            IN  Row(cs[kr[1]].chunk, kr[2])]
        IN  /\ height(flat) = size(qd)
            /\ \A j \in 1..height(flat) : Cardinality(Places(j)) = 1
            /\ FlattenSeq(rebuilt) = flat.values
            /\ \A k \in 1..Len(cs) : cs[k].chunk.width = flat.width
            /\ SumHeights(cs) = height(flat)

C10_Witness ==
    /\ split_idx = 2
    /\ taken[2].quotient_degree = 2
    /\ taken[2].log_trace_height = 1
    /\ taken[1].quotient_degree = 8

====
